---- MODULE Spec2Model ----
(***************************************************************************)
(* swiss_public_transport: the refresh coordinator (coordinator.py) and    *)
(* the sensor views over its published data (sensor.py).                   *)
(*                                                                         *)
(* Python values are records tagged with their type, so that None, a       *)
(* datetime, a timedelta, an int and a str are all distinct values.        *)
(***************************************************************************)
EXTENDS Integers, Sequences, FiniteSets, TLC

VARIABLES data, last_update_success, polled, last

vars == <<data, last_update_success, polled, last>>

(* ------------------------------ bounds -------------------------------- *)

\* longest connection list the upstream client hands back
MaxUpstream == 4
\* number of distinct upstream connections the timetable offers
NumConnections == 2
\* latest clock reading of a poll
MaxNow == 1

\* const.SENSOR_CONNECTIONS_COUNT
SENSOR_CONNECTIONS_COUNT == 3

(* --------------------------- Python values ---------------------------- *)

None == [type |-> "NoneType"]
PyBool(b) == [type |-> "bool", b |-> b]
PyInt(n) == [type |-> "int", n |-> n]
Datetime(t) == [type |-> "datetime", t |-> t]
Timedelta(d) == [type |-> "timedelta", d |-> d]
List(items) == [type |-> "list", items |-> items]

\* str(x): the text that renders x; two texts are equal iff they render the
\* same value, and the text of None is the four letters "None"
Str(x) == [type |-> "str", text |-> x]

\* the outcome of evaluating an expression: a value, or an exception
Return(v) == [raised |-> "", value |-> v]
Raise(e) == [raised |-> e]

(* ------------------------- homeassistant.util.dt ---------------------- *)

\* dt_util.parse_datetime: the datetime an ISO text denotes, None for any
\* other text
parse_datetime(s) ==
    IF s.type = "str" /\ s.text.type = "datetime" THEN s.text ELSE None

(* ------------------------------ upstream ------------------------------ *)

\* the k-th connection of the timetable as the client reports it; every second
\* one carries a departure text that is no timestamp
Connection(k) ==
    [ departure |-> IF k % 2 = 0 THEN Str(None) ELSE Str(Datetime(k)),
      number    |-> PyInt(k),
      platform  |-> PyInt(10 + k),
      transfers |-> PyInt(k % 3),
      duration  |-> PyInt(100 * k),
      delay     |-> PyInt((k + 1) % 2) ]

Slots == {None} \cup {Connection(k) : k \in 1..NumConnections}

RECURSIVE ListsUpTo(_)
ListsUpTo(n) ==
    IF n = 0 THEN {<<>>}
    ELSE LET shorter == ListsUpTo(n - 1)
         IN  shorter \cup {Append(l, s) : l \in {x \in shorter : Len(x) = n - 1}, s \in Slots}

\* what async_get_data leaves in the client on success
Fetched(c) == [raised |-> "", connections |-> c,
               from_name |-> "Zuerich HB", to_name |-> "Bern"]
FetchError == [raised |-> "OpendataTransportError"]

FetchResults(maxlen) == {FetchError} \cup {Fetched(c) : c \in ListsUpTo(maxlen)}

(* ----------------------------- coordinator ---------------------------- *)

\* remaining_time with the subtraction the wrong way round
remaining_time_reversed(departure, now) ==
    LET departure_datetime == parse_datetime(departure)
    IN  IF departure_datetime # None
        THEN Timedelta(now - departure_datetime.t)
        ELSE None

\* SwissPublicTransportDataUpdateCoordinator.remaining_time
remaining_time(departure, now) ==
    LET departure_datetime == parse_datetime(departure)
    IN  IF departure_datetime # None
        THEN Timedelta(departure_datetime.t - now)
        ELSE None

\* DataConnection(...) that does not carry the upstream delay over
DataConnection_drops_delay(c, opendata, now) ==
    [ departure      |-> parse_datetime(c.departure),
      train_number   |-> c.number,
      platform       |-> c.platform,
      transfers      |-> c.transfers,
      duration       |-> c.duration,
      start          |-> opendata.from_name,
      destination    |-> opendata.to_name,
      remaining_time |-> Str(remaining_time(c.departure, now)),
      delay          |-> PyInt(0) ]

\* the DataConnection(...) built for upstream connection c
DataConnection(c, opendata, now) ==
    [ departure      |-> parse_datetime(c.departure),
      train_number   |-> c.number,
      platform       |-> c.platform,
      transfers      |-> c.transfers,
      duration       |-> c.duration,
      start          |-> opendata.from_name,
      destination    |-> opendata.to_name,
      remaining_time |-> Str(remaining_time(c.departure, now)),
      delay          |-> c.delay ]

\* the comprehension with the length test off by one: len(connections) > i + 1
RECURSIVE Comprehension_off_by_one(_, _, _, _)
Comprehension_off_by_one(i, count, opendata, now) ==
    IF i >= count THEN <<>>
    ELSE LET connections == opendata.connections
             rest == Comprehension_off_by_one(i + 1, count, opendata, now)
         IN  IF Len(connections) > i + 1 /\ connections[i + 1] # None
             THEN <<DataConnection(connections[i + 1], opendata, now)>> \o rest
             ELSE rest

\* the comprehension ending at the first missing slot instead of skipping it
RECURSIVE Comprehension_stops_at_null(_, _, _, _)
Comprehension_stops_at_null(i, count, opendata, now) ==
    IF i >= count THEN <<>>
    ELSE LET connections == opendata.connections
         IN  IF Len(connections) > i /\ connections[i + 1] # None
             THEN <<DataConnection(connections[i + 1], opendata, now)>>
                  \o Comprehension_stops_at_null(i + 1, count, opendata, now)
             ELSE <<>>

\* the list comprehension over i in range(count), from index i on
RECURSIVE Comprehension(_, _, _, _)
Comprehension(i, count, opendata, now) ==
    IF i >= count THEN <<>>
    ELSE LET connections == opendata.connections
             rest == Comprehension(i + 1, count, opendata, now)
         IN  IF Len(connections) > i /\ connections[i + 1] # None
             THEN <<DataConnection(connections[i + 1], opendata, now)>> \o rest
             ELSE rest

\* _async_update_data that swallows the fetch error and publishes nothing
_async_update_data_swallows_error(opendata, now) ==
    IF opendata.raised = "OpendataTransportError"
    THEN Return(List(<<>>))
    ELSE Return(List(Comprehension(0, SENSOR_CONNECTIONS_COUNT, opendata, now)))

\* _async_update_data ranging over every upstream connection
_async_update_data_untruncated(opendata, now) ==
    IF opendata.raised = "OpendataTransportError"
    THEN Raise("UpdateFailed")
    ELSE Return(List(Comprehension(0, Len(opendata.connections), opendata, now)))

\* _async_update_data with the fetch outcome and the clock as inputs
_async_update_data(opendata, now) ==
    IF opendata.raised = "OpendataTransportError"
    THEN Raise("UpdateFailed")
    ELSE Return(List(Comprehension(0, SENSOR_CONNECTIONS_COUNT, opendata, now)))

(* ------------------------------- sensor ------------------------------ *)

\* key=f"departure{i or ''}"
DepartureKey(i) == IF i = 0 THEN "departure" ELSE <<"departure1", "departure2">>[i]

\* the descriptions with the delay view bound to slot 1
SENSORS_delay_at_1 ==
    [ i \in 1..SENSOR_CONNECTIONS_COUNT |->
        [key |-> DepartureKey(i - 1), value_field |-> "departure", index |-> PyInt(i - 1)] ]
    \o << [key |-> "duration",  value_field |-> "duration",  index |-> None],
           [key |-> "transfers", value_field |-> "transfers", index |-> None],
           [key |-> "platform",  value_field |-> "platform",  index |-> None],
           [key |-> "delay",     value_field |-> "delay",     index |-> PyInt(1)] >>

\* one SwissPublicTransportSensorEntityDescription per departure slot, then
\* duration, transfers, platform and delay, which carry no index
SENSORS ==
    [ i \in 1..SENSOR_CONNECTIONS_COUNT |->
        [key |-> DepartureKey(i - 1), value_field |-> "departure", index |-> PyInt(i - 1)] ]
    \o << [key |-> "duration",  value_field |-> "duration",  index |-> None],
           [key |-> "transfers", value_field |-> "transfers", index |-> None],
           [key |-> "platform",  value_field |-> "platform",  index |-> None],
           [key |-> "delay",     value_field |-> "delay",     index |-> None] >>

\* value_fn=lambda data_connection: data_connection[<field>]
value_fn(description, data_connection) == data_connection[description.value_field]

\* exists_fn=lambda data_connection: data_connection is not None
exists_fn(description, data_connection) == data_connection # None

\* the index ignored: every view reads slot 0
index_always_0(description) == 0

\* self.entity_description.index or 0
index_or_0(description) ==
    IF description.index = None \/ description.index = PyInt(0) THEN 0 ELSE description.index.n

\* self.coordinator.data[i]
Subscript(d, i) ==
    IF d.type # "list" THEN Raise("TypeError")
    ELSE IF i >= Len(d.items) THEN Raise("IndexError")
    ELSE Return(d.items[i + 1])

\* SwissPublicTransportSensor.enabled
enabled(description, d) ==
    LET slot == Subscript(d, index_or_0(description))
    IN  IF slot.raised # "" THEN slot
        ELSE Return(PyBool(exists_fn(description, slot.value)))

\* SwissPublicTransportSensor.native_value
native_value(description, d) ==
    LET slot == Subscript(d, index_or_0(description))
    IN  IF slot.raised # "" THEN slot
        ELSE Return(value_fn(description, slot.value))

(* ------------------------------- state -------------------------------- *)

\* data: the published Result Set (None until a poll has succeeded)
\* last_update_success: the coordinator's status
\* polled: what the most recent successful poll fetched, and its clock
\* last: the most recent operation and its outcome
Init ==
    /\ data = None
    /\ last_update_success = TRUE
    /\ polled = None
    /\ last = [op |-> "init"]

\* one tick of the host scheduler: run _async_update_data and publish
Refresh(opendata, now) ==
    LET r == _async_update_data(opendata, now)
    IN  /\ last' = [op |-> "poll", fetch |-> opendata.raised, signal |-> r.raised]
        /\ IF r.raised # ""
           THEN /\ last_update_success' = FALSE
                /\ UNCHANGED <<data, polled>>
           ELSE /\ data' = r.value
                /\ last_update_success' = TRUE
                /\ polled' = [opendata |-> opendata, now |-> now]

\* the inputs of a poll: any fetch outcome, at any clock reading
PollInputs == FetchResults(MaxUpstream)
\* one clock reading per poll: the records of a poll are built in one
\* synchronous comprehension
Clock == 0..MaxNow

Poll == \E opendata \in PollInputs, now \in Clock : Refresh(opendata, now)

Next == Poll

Spec == Init /\ [][Next]_vars

\* a read of a view's enabled property
ReadEnabled(s) ==
    /\ last' = [op |-> "enabled", view |-> s, result |-> enabled(SENSORS[s], data)]
    /\ UNCHANGED <<data, last_update_success, polled>>

\* a read of native_value that consumes the record it reports
ReadNativeValue_consumes(s) ==
    /\ last' = [op |-> "native_value", view |-> s, result |-> native_value(SENSORS[s], data)]
    /\ data' = IF data.type = "list" /\ Len(data.items) > 0
               THEN List(Tail(data.items)) ELSE data
    /\ UNCHANGED <<last_update_success, polled>>

\* a read of a view's native_value property
ReadNativeValue(s) ==
    /\ last' = [op |-> "native_value", view |-> s, result |-> native_value(SENSORS[s], data)]
    /\ UNCHANGED <<data, last_update_success, polled>>

Views == 1..Len(SENSORS)

\* polls whose upstream list fits the slots the views are bound to
ViewPollInputs == FetchResults(SENSOR_CONNECTIONS_COUNT)

PollForViews == \E opendata \in ViewPollInputs, now \in Clock : Refresh(opendata, now)
Enabled == \E s \in Views : ReadEnabled(s)
NativeValue == \E s \in Views : ReadNativeValue(s)

NextViews == PollForViews \/ Enabled \/ NativeValue

SpecViews == Init /\ [][NextViews]_vars

(* ------------------------------- claims ------------------------------- *)

\* the connection list of the most recent successful poll
Upstream == polled.opendata.connections

\* the published records
Items == data.items

\* the upstream slots (1-based) the comprehension keeps
Kept(c) == {i \in 1..Len(c) : i <= SENSOR_CONNECTIONS_COUNT /\ c[i] # None}

\* the position in the Result Set of kept upstream slot i
Rank(c, i) == Cardinality({j \in Kept(c) : j <= i})

NoNull(c) == \A i \in 1..Len(c) : c[i] # None

\* every field of record r is the one computed from upstream connection c of
\* the poll p
FromSameRecord(r, c, p) ==
    /\ r.departure = parse_datetime(c.departure)
    /\ r.train_number = c.number
    /\ r.platform = c.platform
    /\ r.transfers = c.transfers
    /\ r.duration = c.duration
    /\ r.start = p.opendata.from_name
    /\ r.destination = p.opendata.to_name
    /\ r.remaining_time = Str(IF parse_datetime(c.departure) = None THEN None
                              ELSE Timedelta(parse_datetime(c.departure).t - p.now))
    /\ r.delay = c.delay

Delays == [k \in 1..Len(Items) |-> Items[k].delay.n]

\* C1: after any polls the published Result Set has at most
\* SENSOR_CONNECTIONS_COUNT records and none of them is null
C1_LengthAndNoNull ==
    data # None =>
        /\ Len(Items) <= SENSOR_CONNECTIONS_COUNT
        /\ \A k \in 1..Len(Items) : Items[k] # None

\* a poll of an overlong upstream list with a null slot among the first
\* SENSOR_CONNECTIONS_COUNT has published
C1_Witness ==
    /\ polled # None
    /\ Len(Upstream) > SENSOR_CONNECTIONS_COUNT
    /\ \E i \in 1..SENSOR_CONNECTIONS_COUNT : Upstream[i] = None
    /\ Len(Items) >= 1

\* C2: a poll whose fetch raises OpendataTransportError signals UpdateFailed
\* and leaves the published Result Set as it was
C2_FailureKeepsData ==
    [][ (last'.op = "poll" /\ last'.fetch = "OpendataTransportError")
          => (last'.signal = "UpdateFailed" /\ data' = data) ]_vars

\* a failed poll after a Result Set with records was published
C2_Witness ==
    /\ last.op = "poll"
    /\ last.fetch = "OpendataTransportError"
    /\ last.signal = "UpdateFailed"
    /\ ~last_update_success
    /\ data # None
    /\ Len(Items) >= 1

\* C3: the published Result Set is made of the most recent successful poll
\* alone: nothing is published before a success, and afterwards every record
\* has all its fields from one upstream connection of that poll, and there are
\* as many records as that poll kept
C3_LatestSuccessOnly ==
    IF polled = None THEN data = None
    ELSE /\ data.type = "list"
         /\ Len(Items) = Cardinality(Kept(Upstream))
         /\ \A k \in 1..Len(Items) :
               \E j \in Kept(Upstream) : FromSameRecord(Items[k], Upstream[j], polled)

\* a failed poll has come after a successful one that published two records
\* or more
C3_Witness ==
    /\ polled # None
    /\ last.op = "poll"
    /\ last.fetch = "OpendataTransportError"
    /\ Len(Items) >= 2
    /\ Items[1] # Items[2]

C8_Original ==
    polled # None =>
        \A i \in Kept(Upstream) :
            LET r == Items[Rank(Upstream, i)]
                parsed == parse_datetime(Upstream[i].departure)
            IN  IF parsed = None
                THEN r.remaining_time = None /\ r.departure = None
                ELSE r.remaining_time = Timedelta(parsed.t - polled.now)

\* C8: a record with an unparseable upstream departure has the text of None
\* as remaining-time and a null departure; a parseable one has the text of the
\* parsed departure minus the clock of the poll
C8_RemainingTimeText ==
    polled # None =>
        \A i \in Kept(Upstream) :
            LET r == Items[Rank(Upstream, i)]
                parsed == parse_datetime(Upstream[i].departure)
            IN  IF parsed = None
                THEN r.remaining_time = Str(None) /\ r.departure = None
                ELSE r.remaining_time = Str(Timedelta(parsed.t - polled.now))

\* a record with an unparseable departure and one with a parseable departure
\* that lies ahead of the clock are published together
C8_Witness ==
    /\ polled # None
    /\ \E i \in Kept(Upstream) :
          /\ parse_datetime(Upstream[i].departure) = None
          /\ Items[Rank(Upstream, i)].remaining_time = Str(None)
    /\ \E i \in Kept(Upstream) :
          /\ parse_datetime(Upstream[i].departure) # None
          /\ parse_datetime(Upstream[i].departure).t # polled.now

\* C10: record k of the Result Set is the k-th non-null connection among the
\* first SENSOR_CONNECTIONS_COUNT upstream slots; so with upstream slot j null,
\* a view on a slot from j on has no backing record or shows a connection of
\* a later upstream slot
C10_NullsCompact ==
    polled # None =>
        /\ Len(Items) = Cardinality(Kept(Upstream))
        /\ \A i \in Kept(Upstream) :
              FromSameRecord(Items[Rank(Upstream, i)], Upstream[i], polled)
        /\ \A j \in 1..Len(Upstream) :
              (j <= SENSOR_CONNECTIONS_COUNT /\ Upstream[j] = None) =>
                  \A s \in 1..Len(SENSORS) :
                      LET i == index_or_0(SENSORS[s]) + 1
                      IN  i >= j =>
                            \/ native_value(SENSORS[s], data) = Raise("IndexError")
                            \/ \E m \in Kept(Upstream) :
                                  /\ m > i
                                  /\ Rank(Upstream, m) = i
                                  /\ native_value(SENSORS[s], data)
                                       = Return(value_fn(SENSORS[s], Items[i]))
                                  /\ Items[i].train_number = Upstream[m].number

\* a null in upstream slot 2 of 4: record 2 is upstream slot 3, slot 4 is cut
C10_Witness ==
    /\ polled # None
    /\ Len(Upstream) > SENSOR_CONNECTIONS_COUNT
    /\ Upstream[1] # None
    /\ Upstream[2] = None
    /\ Upstream[3] # None
    /\ Upstream[3] # Upstream[1]
    /\ Upstream[4] # None
    /\ Len(Items) = 2
    /\ Items[2].train_number = Upstream[3].number

\* C4 as stated: a view whose backing slot is missing from the Result Set
\* answers its enabled check with false
C4_AbsentSlotReportsFalse ==
    ( /\ last.op = "enabled"
      /\ data.type = "list"
      /\ index_or_0(SENSORS[last.view]) >= Len(Items) )
        => last.result = Return(PyBool(FALSE))

\* C6 as stated: with delays [0,1,0] published, a delay view reports 1, the
\* delay of record 1
C6_Original ==
    (data.type = "list" /\ Delays = <<0, 1, 0>>) =>
        \E s \in 1..Len(SENSORS) :
            /\ SENSORS[s].key = "delay"
            /\ native_value(SENSORS[s], data) = Return(PyInt(1))

\* C6: every delay view reports the delay of record 0 of the latest Result
\* Set, so 0 when the delays are [0,1,0]
C6_DelayOfFirstRecord ==
    \A s \in 1..Len(SENSORS) :
          SENSORS[s].key = "delay" =>
              /\ (data.type = "list" /\ Len(Items) >= 1) =>
                    native_value(SENSORS[s], data) = Return(Items[1].delay)
              /\ (data.type = "list" /\ Delays = <<0, 1, 0>>) =>
                    native_value(SENSORS[s], data) = Return(PyInt(0))

\* the delay view was read while the published delays were [0,1,0]
C6_Witness ==
    /\ data.type = "list"
    /\ Delays = <<0, 1, 0>>
    /\ last.op = "native_value"
    /\ SENSORS[last.view].key = "delay"
    /\ last.result = Return(PyInt(0))

\* C7: for every slot i below SENSOR_CONNECTIONS_COUNT with a record in the
\* Result Set, the departure view of slot i reports the departure of record i
C7_DepartureOfSlot ==
    data.type = "list" =>
        \A i \in 0..(SENSOR_CONNECTIONS_COUNT - 1) :
            i < Len(Items) =>
                \E s \in 1..Len(SENSORS) :
                    /\ SENSORS[s].key = DepartureKey(i)
                    /\ SENSORS[s].index = PyInt(i)
                    /\ native_value(SENSORS[s], data) = Return(Items[i + 1].departure)

\* the view departure2 was read and reported a timestamp that record 0 does
\* not have
C7_Witness ==
    /\ data.type = "list"
    /\ Len(Items) = SENSOR_CONNECTIONS_COUNT
    /\ last.op = "native_value"
    /\ SENSORS[last.view].key = "departure2"
    /\ last.result = Return(Items[3].departure)
    /\ Items[3].departure # None
    /\ Items[3].departure # Items[1].departure

\* C9: a read of enabled or native_value leaves the Result Set, the status
\* and the record of the last poll as they were, and a read repeated with no
\* poll in between returns what it returned before
C9_ReadsChangeNothing ==
    [][ last'.op \in {"enabled", "native_value"} =>
          /\ data' = data
          /\ last_update_success' = last_update_success
          /\ polled' = polled
          /\ (last.op = last'.op /\ last.view = last'.view)
                => last'.result = last.result ]_vars

\* a view with a backing record was read for its value
C9_Witness ==
    /\ last.op = "native_value"
    /\ data.type = "list"
    /\ Len(Items) >= 2
    /\ last.result.raised = ""
    /\ last.result.value = Items[index_or_0(SENSORS[last.view]) + 1][SENSORS[last.view].value_field]

====
